---- MODULE Spec2Model ----
(***************************************************************************)
(* The VVM simulator of assets/app.js (VVMSimulatorModule): the assembler, *)
(* the fetch-decode-execute interpreter and the run/step/pause/reset       *)
(* controller.                                                             *)
(*                                                                         *)
(* Program text is modelled after tokenising: a text is a sequence of      *)
(* lines, each line a record holding what the assembler's tests and        *)
(* parseInt calls see (kind of line, mnemonic token, parsed argument).     *)
(* JavaScript's NaN and undefined are the two values NaN and Undefined,    *)
(* and every arithmetic or comparison goes through the Js* operators,      *)
(* which treat them as JavaScript does.                                    *)
(***************************************************************************)
EXTENDS Integers, Sequences, FiniteSets, TLC

VARIABLES cpu, memory, state, animationId, lastStepTime, pending, code,
          speedSlider, last, asmLines, asmK, asmA, events, announced, image

vars == <<cpu, memory, state, animationId, lastStepTime, pending, code,
          speedSlider, last, asmLines, asmK, asmA, events, announced, image>>

(* What a listener on the EventBus has seen: the events the last operation *)
(* emitted, and the value of the last register-change event of each        *)
(* register. image is a history variable: the text of the latest load and  *)
(* memory as that load left it.                                            *)
obsVars == <<events, announced, image>>

(* The variables of one call of assembleProgram taken line by line: the    *)
(* lines of its text, the line its loop is at, and its locals.             *)
asmVars == <<asmLines, asmK, asmA>>

(* The variables of the program (last is a history variable). *)
progVars == <<cpu, memory, state, animationId, lastStepTime, pending, code,
              speedSlider>>

-----------------------------------------------------------------------------
(* Bounds of the model *)

(* step() is not taken once the cycle counter has reached MaxCycle. *)
MaxCycle == 14

(* At most MaxFrames animation-frame callbacks can be scheduled at once. *)
MaxFrames == 3

(* The assembler is applied to every text of at most MaxLines lines. *)
MaxLines == 3

(* One-instruction texts have operands in -MaxOperand..MaxOperand. *)
MaxOperand == 120

(* A text stepped to its end runs at most MaxLongCycle cycles. *)
MaxLongCycle == 110

-----------------------------------------------------------------------------
(* JavaScript values *)

NaN == 900001
Undefined == 900002

IsNumber(x) == x # NaN /\ x # Undefined

JsAdd(a, b) == IF IsNumber(a) /\ IsNumber(b) THEN a + b ELSE NaN
JsSub(a, b) == IF IsNumber(a) /\ IsNumber(b) THEN a - b ELSE NaN
JsLt(a, b) == IsNumber(a) /\ IsNumber(b) /\ a < b
JsGt(a, b) == IsNumber(a) /\ IsNumber(b) /\ a > b
JsGe(a, b) == IsNumber(a) /\ IsNumber(b) /\ a >= b
JsLe(a, b) == IsNumber(a) /\ IsNumber(b) /\ a <= b
JsAbs(a) == IF IsNumber(a) THEN (IF a < 0 THEN -a ELSE a) ELSE NaN
(* a % b of JavaScript: the sign of the result is the sign of a. *)
JsRem(a, b) ==
  IF IsNumber(a) THEN (IF a < 0 THEN -((-a) % b) ELSE a % b) ELSE NaN
(* Math.floor(a / b) for b > 0 *)
JsFloorDiv(a, b) == IF IsNumber(a) THEN a \div b ELSE NaN

-----------------------------------------------------------------------------
(* Memory *)

MemorySize == 256

(* The array memory is kept as its length and its words other than 0: the  *)
(* word at address a is cells[a] when a is in the domain of cells, and 0   *)
(* at any other address below len. A hole of the array holds Undefined.    *)
ZeroMemory(n) == [len |-> n, cells |-> [i \in {} |-> 0]]

MemRead(mem, a) ==
  IF ~IsNumber(a) \/ a < 0 \/ a >= mem.len THEN Undefined
  ELSE IF a \in DOMAIN mem.cells THEN mem.cells[a] ELSE 0

(* memory[a] = v; a write past the end lengthens the array, leaving holes. *)
MemWrite(mem, a, v) ==
  LET holes == mem.len..(a - 1)
      kept == (DOMAIN mem.cells \cup holes) \ {a}
      dom == IF v = 0 THEN kept ELSE kept \cup {a}
  IN  [len |-> IF a + 1 > mem.len THEN a + 1 ELSE mem.len,
       cells |-> [i \in dom |-> IF i = a THEN v
                                ELSE IF i \in holes THEN Undefined
                                ELSE mem.cells[i]]]

-----------------------------------------------------------------------------
(* Assembler *)

OPCODES ==
  ("HALT" :> 0) @@ ("HLT" :> 0) @@ ("COB" :> 0) @@ ("ADD" :> 1) @@
  ("SUB" :> 2) @@ ("STORE" :> 3) @@ ("STO" :> 3) @@ ("STA" :> 3) @@
  ("NOP" :> 4) @@ ("NUL" :> 4) @@ ("LOAD" :> 5) @@ ("LDA" :> 5) @@
  ("BRANCH" :> 6) @@ ("BR" :> 6) @@ ("BRU" :> 6) @@ ("JMP" :> 6) @@
  ("BRZ" :> 7) @@ ("BRP" :> 8) @@ ("IN" :> 901) @@ ("INP" :> 901) @@
  ("OUT" :> 902) @@ ("PRN" :> 902)

(* Lines of a program text, as the assembler classifies them.              *)
(*   Skip        : a blank line or a comment line                          *)
(*   Star(n)     : "*..." with n = parseInt of the text after the star     *)
(*   Dat(n)      : "DAT..." with n = parseInt of the text after DAT        *)
(*   Num(n)      : a line that is a bare signed integer n                  *)
(*   Ins(t)      : a line of one token t                                   *)
(*   InsA(t, n)  : a first token t and n = parseInt of the second token    *)
Skip == [kind |-> "skip", tok |-> "", hasArg |-> FALSE, arg |-> 0]
Star(n) == [kind |-> "star", tok |-> "*", hasArg |-> TRUE, arg |-> n]
Dat(n) == [kind |-> "dat", tok |-> "DAT", hasArg |-> TRUE, arg |-> n]
Num(n) == [kind |-> "num", tok |-> "", hasArg |-> TRUE, arg |-> n]
Ins(t) == [kind |-> "ins", tok |-> t, hasArg |-> FALSE, arg |-> 0]
InsA(t, n) == [kind |-> "ins", tok |-> t, hasArg |-> TRUE, arg |-> n]

Entry(address, bytecode, line, instruction, operand) ==
  [address |-> address, bytecode |-> bytecode, line |-> line,
   instruction |-> instruction, operand |-> operand]

(* bytecode of a known mnemonic: 901/902 as they are, else opcode*100 +     *)
(* operand % 100                                                           *)
Encode(opcode, operand) ==
  IF opcode = 901 \/ opcode = 902 THEN opcode
  ELSE JsAdd(opcode * 100, JsRem(operand, 100))

(* One iteration of the assembler's loop on line k (1-based; the source's  *)
(* i is k - 1). a = [address, program, errors].                            *)
UnknownTakesSlot(a, l, k) ==
  [a EXCEPT !.errors = Append(@, [line |-> k, tok |-> l.tok]),
            !.address = @ + 1]

(* errors.push(`Line ${i + 1}: Unknown instruction ...`); continue *)
UnknownInstruction(a, l, k) ==
  [a EXCEPT !.errors = Append(@, [line |-> k, tok |-> l.tok])]

AddressResetUnchecked(a, l) ==
  IF IsNumber(l.arg) THEN [a EXCEPT !.address = l.arg] ELSE a

(* "Check for load directive": a line that starts with a star *)
AddressReset(a, l) ==
  IF IsNumber(l.arg) /\ l.arg >= 0 /\ l.arg <= 99
  THEN [a EXCEPT !.address = l.arg] ELSE a

AsmLine(a, l, k) ==
  CASE l.kind = "skip" -> a
    [] l.kind = "star" -> AddressReset(a, l)
    [] l.kind = "dat" ->
         IF IsNumber(l.arg)
         THEN [a EXCEPT
                 !.program = Append(@, Entry(a.address, l.arg, k - 1, "DAT",
                                             l.arg)),
                 !.address = @ + 1]
         ELSE a
    [] l.kind = "num" ->
         [a EXCEPT
            !.program = Append(@, Entry(a.address, l.arg, k - 1, "DATA",
                                        l.arg)),
            !.address = @ + 1]
    [] OTHER ->
         LET operand == IF l.hasArg THEN l.arg ELSE 0
         IN  IF l.tok \notin DOMAIN OPCODES
             THEN UnknownInstruction(a, l, k)
             ELSE [a EXCEPT
                     !.program = Append(@, Entry(a.address,
                                                 Encode(OPCODES[l.tok], operand),
                                                 k - 1, l.tok, operand)),
                     !.address = @ + 1]

(* The iterations of a loop run one after the other: e, evaluated once v  *)
(* has its value. (TLC evaluates an argument when it is first used, and a  *)
(* loop of a hundred iterations carried along unevaluated exhausts its     *)
(* stack; for the same reason a loop is taken as its first half followed   *)
(* by its second half.)                                                    *)
Then(v, e) == IF v = v THEN e ELSE e

(* The iterations of the assembler's loop on lines lo..hi *)
RECURSIVE AsmRange(_, _, _, _)
AsmRange(lines, lo, hi, a) ==
  IF lo > hi THEN a
  ELSE IF lo = hi THEN AsmLine(a, lines[lo], lo)
  ELSE LET mid == (lo + hi) \div 2
           half == AsmRange(lines, lo, mid, a)
       IN  Then(half, AsmRange(lines, mid + 1, hi, half))

AsmFrom(lines, k, a) == AsmRange(lines, k, Len(lines), a)

(* const program = []; const errors = []; let address = 0 *)
AsmStart == [address |-> 0, program |-> <<>>, errors |-> <<>>]

assembleProgram(lines) ==
  LET r == AsmFrom(lines, 1, AsmStart)
  IN  [program |-> r.program, errors |-> r.errors]

-----------------------------------------------------------------------------
(* CPU: a machine m is [cpu, memory, state] *)

Fetch(m) ==
  LET mar == m.cpu.PC
      mbr == MemRead(m.memory, mar)
  IN  [m EXCEPT !.cpu.MAR = mar, !.cpu.MBR = mbr, !.cpu.IR = mbr,
                !.cpu.PC = m.cpu.PC + 1]

decode(instruction) ==
  IF instruction = 901 \/ instruction = 902
  THEN [opcode |-> instruction, operand |-> 0]
  ELSE [opcode |-> JsRem(JsFloorDiv(JsAbs(instruction), 100), 10),
        operand |-> JsRem(JsAbs(instruction), 100)]

(* What prompt() returns, after parseInt: Cancelled for null, NaN for a    *)
(* text that is no number, else the integer typed.                         *)
Cancelled == 900003

ExecHalt(m) == [m EXCEPT !.state.halted = TRUE]

(* ADD and SUB: the result is assigned to AC before the range test. *)
ExecAddStaleFlags(m, operand) ==
  LET mbr == MemRead(m.memory, operand)
      ac == JsAdd(m.cpu.AC, mbr)
      m1 == [m EXCEPT !.cpu.MAR = operand, !.cpu.MBR = mbr, !.cpu.AC = ac]
  IN  IF JsLt(ac, -999) \/ JsGt(ac, 999)
      THEN [m1 EXCEPT !.state.error = TRUE]
      ELSE m1

ExecAdd(m, operand) ==
  LET mbr == MemRead(m.memory, operand)
      ac == JsAdd(m.cpu.AC, mbr)
      m1 == [m EXCEPT !.cpu.MAR = operand, !.cpu.MBR = mbr, !.cpu.AC = ac]
  IN  IF JsLt(ac, -999) \/ JsGt(ac, 999)
      THEN [m1 EXCEPT !.state.error = TRUE]
      ELSE [m1 EXCEPT !.cpu.Z = (ac = 0), !.cpu.N = JsLt(ac, 0)]

(* A SUB that leaves the flags as they were *)
ExecSubStaleFlags(m, operand) ==
  LET mbr == MemRead(m.memory, operand)
      ac == JsSub(m.cpu.AC, mbr)
      m1 == [m EXCEPT !.cpu.MAR = operand, !.cpu.MBR = mbr, !.cpu.AC = ac]
  IN  IF JsLt(ac, -999) \/ JsGt(ac, 999)
      THEN [m1 EXCEPT !.state.error = TRUE]
      ELSE m1

ExecSub(m, operand) ==
  LET mbr == MemRead(m.memory, operand)
      ac == JsSub(m.cpu.AC, mbr)
      m1 == [m EXCEPT !.cpu.MAR = operand, !.cpu.MBR = mbr, !.cpu.AC = ac]
  IN  IF JsLt(ac, -999) \/ JsGt(ac, 999)
      THEN [m1 EXCEPT !.state.error = TRUE]
      ELSE [m1 EXCEPT !.cpu.Z = (ac = 0), !.cpu.N = JsLt(ac, 0)]

ExecStoreNoWrite(m, operand) ==
  [m EXCEPT !.cpu.MAR = operand, !.cpu.MBR = m.cpu.AC]

ExecStore(m, operand) ==
  [m EXCEPT !.cpu.MAR = operand, !.cpu.MBR = m.cpu.AC,
            !.memory = MemWrite(m.memory, operand, m.cpu.AC)]

ExecLoadImmediate(m, operand) ==
  [m EXCEPT !.cpu.MAR = operand, !.cpu.MBR = operand, !.cpu.AC = operand,
            !.cpu.Z = (operand = 0), !.cpu.N = JsLt(operand, 0)]

(* A LOAD that clears the word it reads *)
ExecLoadDestructive(m, operand) ==
  LET mbr == MemRead(m.memory, operand)
  IN  [m EXCEPT !.cpu.MAR = operand, !.cpu.MBR = mbr, !.cpu.AC = mbr,
                !.cpu.Z = (mbr = 0), !.cpu.N = JsLt(mbr, 0),
                !.memory = MemWrite(m.memory, operand, 0)]

ExecLoad(m, operand) ==
  LET mbr == MemRead(m.memory, operand)
  IN  [m EXCEPT !.cpu.MAR = operand, !.cpu.MBR = mbr, !.cpu.AC = mbr,
                !.cpu.Z = (mbr = 0), !.cpu.N = JsLt(mbr, 0)]

ExecBranch(m, operand) == [m EXCEPT !.cpu.PC = operand]

ExecBrz(m, operand) ==
  IF m.cpu.Z \/ m.cpu.AC = 0 THEN [m EXCEPT !.cpu.PC = operand] ELSE m

ExecBrpStrict(m, operand) ==
  IF JsGt(m.cpu.AC, 0) THEN [m EXCEPT !.cpu.PC = operand] ELSE m

ExecBrp(m, operand) ==
  IF JsGe(m.cpu.AC, 0) THEN [m EXCEPT !.cpu.PC = operand] ELSE m

ExecInUnchecked(m, input) ==
  IF input # Cancelled /\ IsNumber(input)
  THEN [m EXCEPT !.cpu.AC = input, !.cpu.Z = (input = 0),
                 !.cpu.N = (input < 0)]
  ELSE [m EXCEPT !.state.error = TRUE]

ExecIn(m, input) ==
  IF input # Cancelled
  THEN IF IsNumber(input) /\ input >= -999 /\ input <= 999
       THEN [m EXCEPT !.cpu.AC = input, !.cpu.Z = (input = 0),
                      !.cpu.N = (input < 0)]
       ELSE [m EXCEPT !.state.error = TRUE]
  ELSE [m EXCEPT !.state.error = TRUE]

execute(m, opcode, operand, input) ==
  CASE opcode = 0 -> ExecHalt(m)
    [] opcode = 1 -> ExecAdd(m, operand)
    [] opcode = 2 -> ExecSub(m, operand)
    [] opcode = 3 -> ExecStore(m, operand)
    [] opcode = 4 -> m
    [] opcode = 5 -> ExecLoad(m, operand)
    [] opcode = 6 -> ExecBranch(m, operand)
    [] opcode = 7 -> ExecBrz(m, operand)
    [] opcode = 8 -> ExecBrp(m, operand)
    [] opcode = 901 -> ExecIn(m, input)
    [] opcode = 902 -> m
    [] OTHER -> [m EXCEPT !.state.error = TRUE]

(* state.program.find(p => p.address === a): the first such entry's line,  *)
(* or the line kept when there is none.                                    *)
FindLine(program, k, a, keep) ==
  LET found == {j \in k..Len(program) : program[j].address = a}
  IN  IF found = {} THEN keep
      ELSE program[CHOOSE j \in found : \A i \in found : j <= i].line

UpdateCurrentLine(m) ==
  [m EXCEPT !.state.currentLine =
              FindLine(m.state.program, 1, m.cpu.PC - 1, m.state.currentLine)]

(* "Check if we've run past the program" *)
RanPast(m) == m.cpu.PC >= Len(m.state.program) /\ ~m.state.halted

CheckRanPast(m) == IF RanPast(m) THEN [m EXCEPT !.state.halted = TRUE] ELSE m

(* A cycle that does not count itself when it halts the machine *)
ExecutedUncountedHalt(m, input) ==
  LET m1 == Fetch(m)
      d == decode(m1.cpu.IR)
      n == execute(m1, d.opcode, d.operand, input)
  IN  IF n.state.halted THEN n ELSE [n EXCEPT !.state.cycle = @ + 1]

(* The machine after fetch, decode and execute, before the two checks that *)
(* end step().                                                             *)
Executed(m, input) ==
  LET m1 == Fetch([m EXCEPT !.state.cycle = @ + 1])
      d == decode(m1.cpu.IR)
  IN  execute(m1, d.opcode, d.operand, input)

StepReturnsEarlyIfHalted(m) == m.state.halted

(* "if (state.halted || state.error) return" *)
StepReturnsEarly(m) == m.state.halted \/ m.state.error

step(m, input) ==
  IF StepReturnsEarly(m) THEN m
  ELSE CheckRanPast(UpdateCurrentLine(Executed(m, input)))

stepResultIgnoresError(m, input) ==
  IF StepReturnsEarly(m) THEN FALSE
  ELSE LET n == step(m, input) IN ~n.state.halted

(* What step() returns: undefined (falsy) on the early return. *)
stepResult(m, input) ==
  IF StepReturnsEarly(m) THEN FALSE
  ELSE LET n == step(m, input) IN ~n.state.halted /\ ~n.state.error

-----------------------------------------------------------------------------
(* Events: what step() emits on the EventBus, in order *)

RegisterChange(register, value) ==
  [type |-> "register-change", register |-> register, value |-> value]

MemoryRead(address) == [type |-> "memory-read", address |-> address]

MemoryWrite(address, value) ==
  [type |-> "memory-write", address |-> address, value |-> value]

FlagsChange(z, n) == [type |-> "flags-change", Z |-> z, N |-> n]

FetchEventsPCFirst(m) ==
  LET f == Fetch(m)
  IN  <<RegisterChange("PC", f.cpu.PC), RegisterChange("MAR", f.cpu.MAR),
        RegisterChange("MBR", f.cpu.MBR), MemoryRead(f.cpu.MAR),
        RegisterChange("IR", f.cpu.IR)>>

(* The emits of fetch(), on the machine m it is called on *)
FetchEvents(m) ==
  LET f == Fetch(m)
  IN  <<RegisterChange("MAR", f.cpu.MAR), RegisterChange("MBR", f.cpu.MBR),
        MemoryRead(f.cpu.MAR), RegisterChange("IR", f.cpu.IR),
        RegisterChange("PC", f.cpu.PC)>>

(* The emits of execute(opcode, operand), on the machine m it is called    *)
(* on; n is the machine it leaves.                                         *)
ExecuteEvents(m, opcode, operand, input) ==
  LET n == execute(m, opcode, operand, input)
      operandRead ==
        <<RegisterChange("MAR", n.cpu.MAR), MemoryRead(n.cpu.MAR),
          RegisterChange("MBR", n.cpu.MBR)>>
      accumulator ==
        <<RegisterChange("AC", n.cpu.AC), FlagsChange(n.cpu.Z, n.cpu.N)>>
      jump == <<RegisterChange("PC", n.cpu.PC)>>
  IN  CASE opcode \in {1, 2} ->
             operandRead \o (IF n.state.error THEN <<>> ELSE accumulator)
        [] opcode = 3 ->
             <<RegisterChange("MAR", n.cpu.MAR),
               RegisterChange("MBR", n.cpu.MBR),
               MemoryWrite(n.cpu.MAR, n.cpu.MBR)>>
        [] opcode = 5 -> operandRead \o accumulator
        [] opcode = 6 -> jump
        [] opcode = 7 -> IF m.cpu.Z \/ m.cpu.AC = 0 THEN jump ELSE <<>>
        [] opcode = 8 -> IF JsGe(m.cpu.AC, 0) THEN jump ELSE <<>>
        [] opcode = 901 -> IF n.state.error THEN <<>> ELSE accumulator
        [] OTHER -> <<>>

(* The emits of step() *)
StepEvents(m, input) ==
  IF StepReturnsEarly(m) THEN <<>>
  ELSE LET m1 == Fetch([m EXCEPT !.state.cycle = @ + 1])
           d == decode(m1.cpu.IR)
       IN  FetchEvents(m) \o ExecuteEvents(m1, d.opcode, d.operand, input)

Registers == {"PC", "AC", "IR", "MAR", "MBR"}

(* The listener's view after the events evs: for each register the value  *)
(* of its last register-change event, or the value seen before.            *)
Announce(seen, evs) ==
  [r \in Registers |->
     LET about == {i \in DOMAIN evs :
                     evs[i].type = "register-change" /\ evs[i].register = r}
     IN  IF about = {} THEN seen[r]
         ELSE evs[CHOOSE i \in about : \A j \in about : j <= i].value]

-----------------------------------------------------------------------------
(* Program texts *)

(* EXAMPLES.sum: the words after IN, OUT and HLT are read as operands *)
ExampleSum ==
  <<Skip, Skip, Skip, InsA("IN", NaN), InsA("ADD", 99), InsA("OUT", NaN),
    InsA("HLT", NaN), Star(99), Dat(-1)>>

ExampleFibonacci ==
  <<Skip, Skip, Skip, InsA("LDA", 10), InsA("STO", 20), InsA("LDA", 11),
    InsA("STO", 21), InsA("LDA", 10), InsA("ADD", 11), InsA("STO", 22),
    InsA("OUT", NaN), InsA("HLT", NaN), Star(10), Dat(0), Dat(1)>>

ExampleMax ==
  <<Skip, Skip, Skip, InsA("IN", NaN), InsA("STO", 10), InsA("IN", NaN),
    InsA("STO", 11), InsA("LDA", 10), InsA("SUB", 11), InsA("BRP", 10),
    InsA("LDA", 11), InsA("BR", 11), Star(10), InsA("LDA", 10), Star(11),
    InsA("OUT", NaN), InsA("HLT", NaN)>>

ExampleLoop ==
  <<Skip, Skip, Skip, InsA("LDA", 20), InsA("ADD", 21), InsA("STO", 20),
    InsA("OUT", NaN), InsA("SUB", 22), InsA("BRZ", 8), InsA("BR", 0),
    Star(8), InsA("HLT", NaN), Star(20), Dat(0), Dat(1), Dat(5)>>

EXAMPLES ==
  ("sum" :> ExampleSum) @@ ("fibonacci" :> ExampleFibonacci) @@
  ("max" :> ExampleMax) @@ ("loop" :> ExampleLoop)

(* Texts typed into the editor *)
TextEmpty == <<>>

(* "LDA 10 / HLT / *10 / DAT 005" *)
TextLoadHalt == <<InsA("LDA", 10), Ins("HLT"), Star(10), Dat(5)>>

(* "IN / ADD 6 / SUB 6 / SUB 6 / SUB 6 / HLT / DAT 1000" *)
TextOverflow ==
  <<Ins("IN"), InsA("ADD", 6), InsA("SUB", 6), InsA("SUB", 6),
    InsA("SUB", 6), Ins("HLT"), Dat(1000)>>

(* "FOO 5 / LDA 2 / HLT" *)
TextUnknown == <<InsA("FOO", 5), InsA("LDA", 2), Ins("HLT")>>

(* "BR 50 / *50 / OUT / HLT" *)
TextBranchHigh == <<InsA("BR", 50), Star(50), Ins("OUT"), Ins("HLT")>>

(* "NOP / *0 / NOP / *0 / NOP": three entries, all at address 0 *)
TextSameAddress == <<Ins("NOP"), Star(0), Ins("NOP"), Star(0), Ins("NOP")>>

(* "BR 99", then 98 lines "0", then "*99 / NOP / NOP": 101 entries, the    *)
(* last two at addresses 99 and 100                                        *)
TextTop ==
  <<InsA("BR", 99)>> \o [i \in 1..98 |-> Num(0)]
    \o <<Star(99), Ins("NOP"), Ins("NOP")>>

(* "LDA 2 / HLT / DAT 1000" *)
TextLoadBig == <<InsA("LDA", 2), Ins("HLT"), Dat(1000)>>

(* "BRZ 3 / HLT / HLT / BRP 5 / HLT / HLT" *)
TextBrz ==
  <<InsA("BRZ", 3), Ins("HLT"), Ins("HLT"), InsA("BRP", 5), Ins("HLT"),
    Ins("HLT")>>

(* "LDA 3 / ADD 4 / HLT / DAT 3 / DAT 2" *)
TextLoadAdd ==
  <<InsA("LDA", 3), InsA("ADD", 4), Ins("HLT"), Dat(3), Dat(2)>>

(* "DAT 7 / *0 / HLT / LDA 0": two entries at address 0, 7 and then 0 *)
TextOverwrite == <<Dat(7), Star(0), Ins("HLT"), InsA("LDA", 0)>>

(* 102 lines "NOP" *)
TextNops == [i \in 1..102 |-> Ins("NOP")]

(* "IN": a program whose last instruction can raise an error *)
TextIn == <<Ins("IN")>>

(* The editor's text is held by name: code is a name of Lines, and         *)
(* Lines[code] the lines of that text. An example's text has its key as    *)
(* name.                                                                   *)
Lines ==
  ("empty" :> TextEmpty) @@ ("loadHalt" :> TextLoadHalt) @@
  ("overflow" :> TextOverflow) @@ ("unknown" :> TextUnknown) @@
  ("branchHigh" :> TextBranchHigh) @@ ("sameAddress" :> TextSameAddress) @@
  ("top" :> TextTop) @@ ("loadBig" :> TextLoadBig) @@ ("brz" :> TextBrz) @@
  ("nops" :> TextNops) @@ ("loadAdd" :> TextLoadAdd) @@
  ("overwrite" :> TextOverwrite) @@ ("in" :> TextIn) @@ EXAMPLES

(* The texts that are stepped through to their end *)
StepTexts == {"nops", "loadHalt", "loadBig", "overflow", "in"}

(* The texts the user types *)
Texts == (DOMAIN Lines \ DOMAIN EXAMPLES) \ {"nops", "in"}

(* Answers to prompt() *)
Inputs == {Cancelled, NaN, 1000, -600, 0, 5}

(* Values of the speed slider *)
Speeds == {1, 2}

-----------------------------------------------------------------------------
(* Controller *)

InitCpu ==
  [PC |-> 0, AC |-> 0, IR |-> 0, MAR |-> 0, MBR |-> 0, Z |-> FALSE,
   N |-> FALSE]

InitState(speed) ==
  [running |-> FALSE, halted |-> FALSE, error |-> FALSE, cycle |-> 0,
   speed |-> speed, program |-> <<>>, currentLine |-> -1]

Machine == [cpu |-> cpu, memory |-> memory, state |-> state]

(* program.forEach(({address, bytecode}) => memory[address] = bytecode) *)
RECURSIVE LoadRange(_, _, _, _)
LoadRange(mem, program, lo, hi) ==
  IF lo > hi THEN mem
  ELSE IF lo = hi
  THEN MemWrite(mem, program[lo].address, program[lo].bytecode)
  ELSE LET mid == (lo + hi) \div 2
           half == LoadRange(mem, program, lo, mid)
       IN  Then(half, LoadRange(half, program, mid + 1, hi))

LoadImageBackwards(mem, program, k) ==
  LoadRange(mem, [i \in 1..Len(program) |-> program[Len(program) + 1 - i]],
            k, Len(program))

LoadImage(mem, program, k) == LoadRange(mem, program, k, Len(program))

(* loadProgram(): the machine afterwards; LoadOk is its return value. *)
LoadOk(text) == Len(assembleProgram(Lines[text]).errors) = 0

(* A loader that installs the program whatever the errors *)
loadProgramDespiteErrors(m, text) ==
  LET a == assembleProgram(Lines[text])
  IN  [m EXCEPT !.memory = LoadImage(m.memory, a.program, 1),
                !.state.program = a.program,
                !.state.error = Len(a.errors) > 0]

loadProgram(m, text) ==
  LET a == assembleProgram(Lines[text])
  IN  IF Len(a.errors) > 0
      THEN [m EXCEPT !.state.error = TRUE]
      ELSE [m EXCEPT !.memory = LoadImage(m.memory, a.program, 1),
                     !.state.program = a.program]

(* "Load program if not already loaded", the start of run and singleStep *)
NeedsLoad(m) == Len(m.state.program) = 0

EnsureLoaded(m, text) == IF NeedsLoad(m) THEN loadProgram(m, text) ELSE m

LoadRefused(m, text) == NeedsLoad(m) /\ ~LoadOk(text)

(* requestAnimationFrame: the handle of the new callback *)
NewFrame(frames) == CHOOSE i \in 1..MaxFrames :
                      i \notin frames /\ \A j \in 1..(i - 1) : j \in frames

(* The history variable last: the operation that led to the state, whether *)
(* it executed a cycle, the run state it was called in, the answer to      *)
(* prompt() it was given (0 when it did not prompt), and whether it was a  *)
(* run() that came right after a pause.                                    *)
Before(st) ==
  [running |-> st.running, halted |-> st.halted, error |-> st.error,
   loaded |-> Len(st.program) > 0]

NoteIn(op, stepped, input) ==
  [op |-> op, stepped |-> stepped, pre |-> Before(state), input |-> input,
   resumed |-> (op = "run" /\ last.op = "pause")]

Note(op, stepped) == NoteIn(op, stepped, 0)

(* No call of assembleProgram is being followed line by line. *)
AsmIdle == asmLines = <<>> /\ asmK = 1 /\ asmA = AsmStart

InitMachine ==
  /\ cpu = InitCpu
  /\ memory = ZeroMemory(MemorySize)
  /\ state = InitState(1)
  /\ animationId = 0
  /\ lastStepTime = 0
  /\ pending = {}
  /\ code = "empty"
  /\ speedSlider \in Speeds
  /\ last = [op |-> "init", stepped |-> FALSE, pre |-> Before(InitState(1)),
             input |-> 0, resumed |-> FALSE]

(* No load has been made *)
NoImage == [code |-> "", memory |-> ZeroMemory(0)]

(* Nothing has been emitted: the listener shows the registers as they are  *)
(* at the start.                                                           *)
ObsIdle ==
  /\ events = <<>>
  /\ announced = [r \in Registers |-> InitCpu[r]]
  /\ image = NoImage

Init == InitMachine /\ AsmIdle /\ ObsIdle

(* The user types another text into the editor. The text is read only by   *)
(* loadProgram, which runs only while no program is loaded, so typing is   *)
(* modelled only then.                                                     *)
EditCode(text) ==
  /\ Len(state.program) = 0
  /\ text # code
  /\ code' = text
  /\ last' = Note("edit", FALSE)
  /\ UNCHANGED <<cpu, memory, state, animationId, lastStepTime, pending,
                 speedSlider>>

(* cancelAnimationFrame(id): the callbacks still scheduled *)
CancelFrame(frames, id) == frames \ {id}

RunNeverReturnsEarly == FALSE

(* "if (state.running) return" of run() *)
RunReturnsEarly == state.running

SingleStepNeverReturnsEarly == FALSE

(* "if (state.running) return" of singleStep() *)
SingleStepReturnsEarly == state.running

(* run() *)
RunBody ==
  /\ (~RunReturnsEarly /\ ~LoadRefused(Machine, code))
       => Cardinality(pending) < MaxFrames
  /\ IF RunReturnsEarly
     THEN UNCHANGED <<cpu, memory, state, animationId, pending>>
     ELSE IF LoadRefused(Machine, code)
     THEN /\ state' = loadProgram(Machine, code).state
          /\ UNCHANGED <<cpu, memory, animationId, pending>>
     ELSE LET m == EnsureLoaded(Machine, code)
          IN  /\ state' = [m.state EXCEPT !.running = TRUE]
              /\ memory' = m.memory
              /\ animationId' = NewFrame(pending)
              /\ pending' = pending \cup {NewFrame(pending)}
              /\ UNCHANGED cpu
  /\ UNCHANGED <<lastStepTime, code, speedSlider>>

Run ==
  /\ RunBody
  /\ last' = Note("run", FALSE)

PauseForgotten == UNCHANGED progVars

PauseKeepsFrame ==
  /\ state' = [state EXCEPT !.running = FALSE]
  /\ lastStepTime' = 0
  /\ UNCHANGED <<cpu, memory, code, speedSlider, pending, animationId>>

(* The pause branch of handleRun() *)
PauseBody ==
  /\ state' = [state EXCEPT !.running = FALSE]
  /\ pending' = IF animationId # 0 THEN CancelFrame(pending, animationId)
                ELSE pending
  /\ animationId' = 0
  /\ lastStepTime' = 0
  /\ UNCHANGED <<cpu, memory, code, speedSlider>>

HandleRun ==
  IF state.running
  THEN PauseBody /\ last' = Note("pause", FALSE)
  ELSE RunBody /\ last' = Note("run", FALSE)

(* A call of step() that executes a cycle; such a call is not made once    *)
(* the cycle counter has reached MaxCycle.                                 *)
WouldStep(m) == ~StepReturnsEarly(m)

(* prompt() is called only by an executing IN: any other step is given   *)
(* the one answer 0, which it does not read.                               *)
Prompts(m) ==
  IF WouldStep(m) /\ decode(MemRead(m.memory, m.cpu.PC)).opcode = 901
  THEN Inputs ELSE {0}

(* singleStep() *)
(* singleStep(), taken only while fewer than maxCycle cycles have run *)
SingleStepWithin(input, maxCycle) ==
  IF SingleStepReturnsEarly
  THEN /\ UNCHANGED progVars
       /\ last' = Note("singleStep", FALSE)
       /\ input = 0
  ELSE IF LoadRefused(Machine, code)
  THEN /\ input = 0
       /\ state' = loadProgram(Machine, code).state
       /\ last' = Note("singleStep", FALSE)
       /\ UNCHANGED <<cpu, memory, animationId, lastStepTime, pending, code,
                      speedSlider>>
  ELSE LET m == EnsureLoaded(Machine, code)
           n == step(m, input)
       IN  /\ input \in Prompts(m)
           /\ WouldStep(m) => m.state.cycle < maxCycle
           /\ cpu' = n.cpu
           /\ memory' = n.memory
           /\ state' = n.state
           /\ last' = NoteIn("singleStep", WouldStep(m), input)
           /\ UNCHANGED <<animationId, lastStepTime, pending, code,
                          speedSlider>>

SingleStep(input) == SingleStepWithin(input, MaxCycle)

(* parseFloat(speedSlider.value) || 1 *)
SliderSpeed(v) == IF v = 0 THEN 1 ELSE v

(* A reset that forgets the frame callback it had scheduled *)
ResetLeavesFrame ==
  /\ animationId' = 0
  /\ cpu' = InitCpu
  /\ state' = InitState(SliderSpeed(speedSlider))
  /\ UNCHANGED <<lastStepTime, speedSlider, pending>>

(* reset(), but for memory *)
ResetBody ==
  /\ pending' = IF animationId # 0 THEN CancelFrame(pending, animationId)
                ELSE pending
  /\ animationId' = 0
  /\ cpu' = InitCpu
  /\ state' = InitState(SliderSpeed(speedSlider))
  /\ UNCHANGED <<lastStepTime, speedSlider>>

ResetKeepsMemory ==
  /\ ResetBody
  /\ last' = Note("reset", FALSE)
  /\ UNCHANGED <<memory, code>>

Reset ==
  /\ ResetBody
  /\ memory' = ZeroMemory(memory.len)
  /\ last' = Note("reset", FALSE)
  /\ UNCHANGED code

HandleClear ==
  /\ ResetBody
  /\ memory' = ZeroMemory(memory.len)
  /\ code' = "empty"
  /\ last' = Note("clear", FALSE)

(* loadExampleData(exampleKey) *)
loadExampleData(mem, exampleKey) ==
  LET z == ZeroMemory(mem.len)
  IN  CASE exampleKey = "sum" -> MemWrite(MemWrite(z, 10, 5), 11, 3)
        [] exampleKey = "fibonacci" -> MemWrite(MemWrite(z, 10, 0), 11, 1)
        [] exampleKey = "max" -> MemWrite(MemWrite(z, 10, 7), 11, 5)
        [] exampleKey = "loop" ->
             MemWrite(MemWrite(MemWrite(z, 13, 5), 14, 0), 15, 1)
        [] OTHER -> z

HandleExample(exampleKey) ==
  /\ exampleKey \in DOMAIN EXAMPLES
  /\ ResetBody
  /\ code' = exampleKey
  /\ memory' = loadExampleData(ZeroMemory(memory.len), exampleKey)
  /\ last' = Note("example", FALSE)

HandleSpeedChange(v) ==
  /\ speedSlider' = v
  /\ state' = [state EXCEPT !.speed = SliderSpeed(v)]
  /\ last' = Note("speed", FALSE)
  /\ UNCHANGED <<cpu, memory, animationId, lastStepTime, pending, code>>

(* "if (!state.running) return" of animate *)
AnimateReturnsEarly == ~state.running

(* The frame callback animate(timestamp) of handle id. lastStepTime is 0   *)
(* (unset) or 1 (a timestamp); due says that 1000 / state.speed ms have    *)
(* passed since lastStepTime, which cannot be when it was unset.           *)
Animate(id, due, input) ==
  /\ id \in pending
  /\ lastStepTime = 0 => ~due
  /\ input \in (IF due /\ ~AnimateReturnsEarly THEN Prompts(Machine) ELSE {0})
  /\ LET frames == pending \ {id}
     IN  IF AnimateReturnsEarly
         THEN /\ pending' = frames
              /\ last' = Note("animate", FALSE)
              /\ UNCHANGED <<cpu, memory, state, animationId, lastStepTime,
                             code, speedSlider>>
         ELSE IF due
         THEN LET n == step(Machine, input)
              IN  /\ WouldStep(Machine) => state.cycle < MaxCycle
                  /\ cpu' = n.cpu
                  /\ memory' = n.memory
                  /\ last' = NoteIn("animate", WouldStep(Machine), input)
                  /\ IF ~stepResult(Machine, input)
                     THEN /\ state' = [n.state EXCEPT !.running = FALSE]
                          /\ pending' = frames
                          /\ UNCHANGED <<animationId, lastStepTime>>
                     ELSE /\ state' = n.state
                          /\ lastStepTime' = 1
                          /\ animationId' = NewFrame(frames)
                          /\ pending' = frames \cup {NewFrame(frames)}
                  /\ UNCHANGED <<code, speedSlider>>
         ELSE /\ lastStepTime' = 1
              /\ animationId' = NewFrame(frames)
              /\ pending' = frames \cup {NewFrame(frames)}
              /\ last' = Note("animate", FALSE)
              /\ UNCHANGED <<cpu, memory, state, code, speedSlider>>

Next ==
  \/ \E text \in Texts : EditCode(text) /\ UNCHANGED <<asmVars, obsVars>>
  \/ Run /\ UNCHANGED <<asmVars, obsVars>>
  \/ HandleRun /\ UNCHANGED <<asmVars, obsVars>>
  \/ \E input \in Inputs : SingleStep(input) /\ UNCHANGED <<asmVars, obsVars>>
  \/ Reset /\ UNCHANGED <<asmVars, obsVars>>
  \/ HandleClear /\ UNCHANGED <<asmVars, obsVars>>
  \/ \E exampleKey \in DOMAIN EXAMPLES :
       HandleExample(exampleKey) /\ UNCHANGED <<asmVars, obsVars>>
  \/ \E v \in Speeds : HandleSpeedChange(v) /\ UNCHANGED <<asmVars, obsVars>>
  \/ \E id \in pending, due \in BOOLEAN, input \in Inputs :
       Animate(id, due, input) /\ UNCHANGED <<asmVars, obsVars>>

Spec == Init /\ [][Next]_vars

-----------------------------------------------------------------------------
(* The assembler on its own: assembleProgram applied to every text of at   *)
(* most MaxLines lines of AsmAlphabet, and to every text of one            *)
(* instruction with an operand up to MaxOperand either side of 0, with no  *)
(* second token, or with a second token that is no number, one iteration   *)
(* of its loop at a time.                                                  *)

AsmAlphabet ==
  {Skip, Star(0), Star(99), Star(100), Star(-1), Star(NaN), Dat(7),
   Dat(NaN), Num(-3), Ins("HLT"), InsA("LDA", 10), InsA("FOO", 5),
   Ins("BAR")}

AsmTexts ==
  UNION {[1..n -> AsmAlphabet] : n \in 0..MaxLines}
    \cup {<<InsA(t, n)>> : t \in DOMAIN OPCODES, n \in (-MaxOperand)..MaxOperand}
    \cup {<<Ins(t)>> : t \in DOMAIN OPCODES}
    \cup {<<InsA(t, NaN)>> : t \in DOMAIN OPCODES}

AsmInit ==
  /\ InitMachine
  /\ speedSlider = 1
  /\ asmLines \in AsmTexts
  /\ asmK = 1
  /\ asmA = AsmStart
  /\ ObsIdle

(* for (let i = 0; i < lines.length; i++) { ... } *)
AsmStep ==
  /\ asmK <= Len(asmLines)
  /\ asmA' = AsmLine(asmA, asmLines[asmK], asmK)
  /\ asmK' = asmK + 1
  /\ UNCHANGED <<progVars, last, asmLines, obsVars>>

AsmNext == AsmStep

AsmSpec == AsmInit /\ [][AsmNext]_vars

-----------------------------------------------------------------------------
(* Single-stepping a text from its load to its end: singleStep() called    *)
(* again and again on a text of StepTexts, up to MaxLongCycle cycles.      *)

StepInit ==
  /\ cpu = InitCpu
  /\ memory = ZeroMemory(MemorySize)
  /\ state = InitState(1)
  /\ animationId = 0
  /\ lastStepTime = 0
  /\ pending = {}
  /\ code \in StepTexts
  /\ speedSlider = 1
  /\ last = [op |-> "init", stepped |-> FALSE, pre |-> Before(InitState(1)),
             input |-> 0, resumed |-> FALSE]
  /\ AsmIdle
  /\ ObsIdle

StepNext ==
  \E input \in Inputs :
    SingleStepWithin(input, MaxLongCycle) /\ UNCHANGED <<asmVars, obsVars>>

StepSpec == StepInit /\ [][StepNext]_vars

-----------------------------------------------------------------------------
(* The simulator with a listener on the EventBus: texts of ObsTexts and    *)
(* the examples are single-stepped and reset, and the listener's view and  *)
(* the memory image of each load are recorded.                             *)

ObsTexts == {"loadHalt", "loadAdd", "overflow", "brz"}

(* singleStep(), with the events of its step() and the image of its load *)
ObservedStep(input) ==
  /\ SingleStep(input)
  /\ LET m == EnsureLoaded(Machine, code)
         loads == ~SingleStepReturnsEarly /\ NeedsLoad(Machine)
                    /\ LoadOk(code)
     IN  /\ events' = IF last'.stepped THEN StepEvents(m, input) ELSE <<>>
         /\ announced' = Announce(announced, events')
         /\ image' = IF loads THEN [code |-> code, memory |-> m.memory]
                     ELSE image

(* reset(): it emits nothing *)
ObservedReset ==
  /\ Reset
  /\ events' = <<>>
  /\ UNCHANGED <<announced, image>>

ObservedExample(exampleKey) ==
  /\ HandleExample(exampleKey)
  /\ events' = <<>>
  /\ image' = NoImage
  /\ UNCHANGED announced

ObservedEdit(text) ==
  /\ EditCode(text)
  /\ events' = <<>>
  /\ image' = NoImage
  /\ UNCHANGED announced

ObsNext ==
  \/ \E text \in ObsTexts : ObservedEdit(text) /\ UNCHANGED asmVars
  \/ \E input \in Inputs : ObservedStep(input) /\ UNCHANGED asmVars
  \/ ObservedReset /\ UNCHANGED asmVars
  \/ \E exampleKey \in DOMAIN EXAMPLES :
       ObservedExample(exampleKey) /\ UNCHANGED asmVars

ObsSpec == Init /\ [][ObsNext]_vars

-----------------------------------------------------------------------------
(* Properties *)

InRange(x) == IsNumber(x) /\ x >= -999 /\ x <= 999

OutOfRange(x) == IsNumber(x) /\ (x < -999 \/ x > 999)

(* The opcode of the instruction in IR, the one the last cycle executed *)
LastOpcode == decode(cpu.IR).opcode

ResetOps == {"reset", "clear", "example"}

StepOps == {"singleStep", "animate"}

(* C1: once an ADD or SUB has produced a result outside -999..999 the      *)
(* machine is Errored, and while it stays so (until a reset) no operation  *)
(* changes AC.                                                             *)
C1_OverflowFreezes ==
  /\ [](last.stepped /\ LastOpcode \in {1, 2} /\ OutOfRange(cpu.AC)
          => state.error)
  /\ [][(state.error /\ LastOpcode \in {1, 2} /\ OutOfRange(cpu.AC)
           /\ last'.op \notin ResetOps)
          => (cpu'.AC = cpu.AC /\ state'.error)]_vars

(* A step was asked of a machine frozen by an overflow. *)
C1_Witness ==
  /\ state.error /\ LastOpcode \in {1, 2} /\ OutOfRange(cpu.AC)
  /\ last.op \in StepOps /\ ~last.stepped /\ last.pre.error

(* C2: an ADD or SUB that ends Errored leaves in AC the value AC had       *)
(* before the instruction.                                                 *)
C2_OverflowNotCommitted ==
  [][(last'.stepped /\ state'.error /\ decode(cpu'.IR).opcode \in {1, 2})
       => (cpu'.AC = cpu.AC /\ InRange(cpu'.AC))]_vars

(* C3: Z is true exactly when AC = 0 and N exactly when AC < 0. *)
C3_FlagsAgree == (cpu.Z <=> cpu.AC = 0) /\ (cpu.N <=> JsLt(cpu.AC, 0))

(* C4: after reset() every memory word is 0, the registers are 0, the      *)
(* flags false, the cycle counter 0, the program table empty and the run   *)
(* state Ready.                                                            *)
C4_ResetZeroes ==
  last.op \in {"reset", "clear"} =>
    /\ \A a \in 0..(memory.len - 1) : MemRead(memory, a) = 0
    /\ cpu = InitCpu
    /\ state.cycle = 0
    /\ state.program = <<>>
    /\ ~state.running /\ ~state.halted /\ ~state.error

(* reset() was called during a run of a loaded program. *)
C4_Witness ==
  last.op = "reset" /\ last.pre.running /\ last.pre.loaded

(* C5: on an Errored machine run(), singleStep(), pause() and a change of  *)
(* the rate change no register, flag, memory word, the program table or    *)
(* the cycle counter, and the machine stays Errored.                       *)
C5_ErroredIsTerminal ==
  [][(state.error /\ last'.op \in {"run", "pause", "singleStep", "speed"})
       => /\ cpu' = cpu
          /\ memory' = memory
          /\ state'.program = state.program
          /\ state'.cycle = state.cycle
          /\ state'.error]_vars

(* C6: run() called while running changes nothing and schedules no frame. *)
C6_RunWhileRunning ==
  [][(state.running /\ last'.op = "run") => UNCHANGED progVars]_vars

C6_Witness == last.op = "run" /\ last.pre.running /\ state.cycle > 0

(* C7: pause() ends the run, and from then on no frame callback executes a *)
(* cycle or changes a register or a memory word while the controller is    *)
(* not running.                                                            *)
C7_PauseStops ==
  /\ [](last.op = "pause" => ~state.running)
  /\ [][((last.op = "pause" \/ ~state.running) /\ last'.op = "animate")
          => (cpu' = cpu /\ memory' = memory /\ state' = state)]_vars

(* pause() was called in the middle of a run. *)
C7_Witness ==
  /\ last.op = "pause" /\ last.pre.running
  /\ state.cycle > 0 /\ ~state.halted /\ ~state.error

(* C8, as claimed: singleStep() while running changes nothing, and on a    *)
(* machine that is not running, Halted or Errored it executes one cycle.   *)
C8_SingleStepAlwaysSteps ==
  [][last'.op = "singleStep" =>
       IF state.running THEN UNCHANGED progVars
       ELSE (~state.halted /\ ~state.error)
              => state'.cycle = state.cycle + 1]_vars

(* C8, amended: ... it executes one cycle unless no program is loaded and  *)
(* the text has an assembly error; then it executes no cycle and the       *)
(* machine becomes Errored.                                                *)
C8_SingleStep ==
  [][last'.op = "singleStep" =>
       IF state.running THEN UNCHANGED progVars
       ELSE (~state.halted /\ ~state.error) =>
              IF Len(state.program) = 0
                 /\ Len(assembleProgram(Lines[code]).errors) > 0
              THEN /\ state'.cycle = state.cycle
                   /\ cpu' = cpu /\ memory' = memory
                   /\ state'.error
              ELSE state'.cycle = state.cycle + 1]_vars

(* singleStep() executed a cycle, not the first one. *)
C8_Witness ==
  last.op = "singleStep" /\ last.stepped /\ state.cycle >= 2

(* C9: at most one frame callback is scheduled. *)
C9_OnePacingLoop == Cardinality(pending) <= 1

(* run() was called again after the pacing had stopped. *)
C9_Witness ==
  /\ last.op = "run" /\ ~last.pre.running /\ state.running
  /\ state.cycle > 0 /\ Cardinality(pending) = 1

(* The highest address a program entry was loaded at (-1: none) *)
LastAddress(program, k) ==
  LET addresses == {program[j].address : j \in k..Len(program)}
  IN  IF addresses = {} THEN -1
      ELSE CHOOSE a \in addresses : \A b \in addresses : b <= a

(* C10: a cycle that did not execute HALT (and raised no error) ends       *)
(* Halted exactly when PC is past the last loaded address.                 *)
C10_RanOffTheEnd ==
  (last.stepped /\ LastOpcode # 0 /\ ~state.error) =>
    (state.halted <=> cpu.PC > LastAddress(state.program, 1))

(* run() has just loaded the text: it was called on a machine that was not *)
(* running and had no program, and the text assembles without errors.      *)
RunLoaded ==
  last.op = "run" /\ ~last.pre.running /\ ~last.pre.loaded /\ LoadOk(code)

(* The entries of the program table at address a *)
EntriesAt(program, a) == {k \in 1..Len(program) : program[k].address = a}

(* The word the image of the program has at address a: the word of the     *)
(* last entry at a, 0 where there is none.                                 *)
ImageWord(program, a) ==
  IF EntriesAt(program, a) = {} THEN 0
  ELSE program[CHOOSE k \in EntriesAt(program, a) :
                 \A j \in EntriesAt(program, a) : j <= k].bytecode

(* C11: right after a program is loaded, every address with a program      *)
(* entry holds that entry's word and every other address holds 0.          *)
C11_LoadedImage ==
  RunLoaded =>
    \A a \in 0..(memory.len - 1) :
      MemRead(memory, a) = ImageWord(state.program, a)

(* C12: a load attempt on a text with assembly errors writes no memory     *)
(* word and installs no program entry, the machine becomes Errored, and    *)
(* while it is Errored no operation but a reset executes a cycle.          *)
C12_LoadRefused ==
  /\ [][(last'.op \in {"run", "singleStep"} /\ ~state.running
           /\ Len(state.program) = 0
           /\ Len(assembleProgram(Lines[code]).errors) > 0)
          => /\ memory' = memory
             /\ state'.program = <<>>
             /\ state'.error
             /\ state'.cycle = state.cycle
             /\ cpu' = cpu]_vars
  /\ [][(state.error /\ last'.op \notin ResetOps)
          => (state'.error /\ state'.cycle = state.cycle
                /\ ~last'.stepped)]_vars

(* run() was refused on a text with an unknown mnemonic while memory held  *)
(* the preset words of an example.                                         *)
C12_Witness ==
  /\ last.op = "run" /\ ~last.pre.error /\ ~last.pre.loaded
  /\ state.error /\ code = "unknown"
  /\ \E a \in DOMAIN memory.cells : memory.cells[a] # 0

(* The lines the assembler has gone through *)
AsmDone == 1..(asmK - 1)

(* A line whose first token is not a mnemonic of OPCODES *)
Unknown(l) == l.kind = "ins" /\ l.tok \notin DOMAIN OPCODES

(* The address and the word of every entry, in order *)
Words(program) ==
  [i \in 1..Len(program) |-> <<program[i].address, program[i].bytecode>>]

(* The lines gone through, without the lines with an unknown mnemonic *)
KnownDone ==
  SelectSeq(SubSeq(asmLines, 1, asmK - 1), LAMBDA l : ~Unknown(l))

(* C13: each line with an unknown mnemonic adds exactly one error, which   *)
(* names the line (counted from 1); the entries and the next address are   *)
(* those of the text without these lines; and there are as many errors as  *)
(* such lines.                                                             *)
C13_UnknownMnemonic ==
  /\ \A k \in AsmDone :
       Cardinality({e \in DOMAIN asmA.errors : asmA.errors[e].line = k})
         = IF Unknown(asmLines[k]) THEN 1 ELSE 0
  /\ Len(asmA.errors) = Cardinality({k \in AsmDone : Unknown(asmLines[k])})
  /\ Words(asmA.program) = Words(AsmFrom(KnownDone, 1, AsmStart).program)
  /\ asmA.address = AsmFrom(KnownDone, 1, AsmStart).address

(* A text of an instruction, a line with an unknown mnemonic and another   *)
(* instruction has been assembled.                                         *)
C13_Witness ==
  /\ Len(asmLines) = 3 /\ asmK = 4
  /\ ~Unknown(asmLines[1]) /\ asmLines[1].kind = "ins"
  /\ Unknown(asmLines[2])
  /\ ~Unknown(asmLines[3]) /\ asmLines[3].kind = "ins"
  /\ Len(asmA.program) = 2 /\ asmA.program[2].address = 1

(* The entries assembled from an instruction line with an integer operand  *)
(* or none                                                                 *)
InstructionEntries ==
  {i \in DOMAIN asmA.program :
     LET l == asmLines[asmA.program[i].line + 1]
     IN  l.kind = "ins" /\ IsNumber(asmA.program[i].operand)}

(* C14: the word of an instruction is opcode * 100 + (operand mod 100),    *)
(* with the operand part in 0..99, and decode gives back the opcode and    *)
(* operand mod 100; IN and OUT give 901 and 902, decoded with operand 0.   *)
C14_EncodeDecode ==
  \A i \in InstructionEntries :
    LET e == asmA.program[i]
        opcode == OPCODES[e.instruction]
    IN  IF opcode \in {901, 902}
        THEN /\ e.bytecode = opcode
             /\ decode(e.bytecode) = [opcode |-> opcode, operand |-> 0]
        ELSE /\ e.bytecode = opcode * 100 + (e.operand % 100)
             /\ decode(e.bytecode)
                  = [opcode |-> opcode, operand |-> e.operand % 100]

(* C15: between cycles PC is within 0..100 and MAR within 0..99. *)
C15_AddressRegisters ==
  /\ cpu.PC \in 0..100
  /\ cpu.MAR \in 0..99

(* C18: in every state that is not Errored AC is within -999..999. *)
C18_AccumulatorInRange == ~state.error => InRange(cpu.AC)

(* A text without a branch instruction *)
BranchFree(lines) ==
  \A k \in DOMAIN lines :
    (lines[k].kind = "ins" /\ lines[k].tok \in DOMAIN OPCODES)
      => OPCODES[lines[k].tok] \notin {6, 7, 8}

(* C16: a program without a branch instruction that raises no error is     *)
(* Halted once 100 cycles have run.                                        *)
C16_HaltsWithinMemorySize ==
  (BranchFree(Lines[code]) /\ ~state.error /\ state.cycle >= 100)
    => state.halted

(* C17: every entry the assembler produces has an address within 0..99,    *)
(* and loading the entries leaves memory its length.                       *)
C17_AddressesInMemory ==
  /\ \A i \in DOMAIN asmA.program : asmA.program[i].address \in 0..99
  /\ LoadImage(ZeroMemory(MemorySize), asmA.program, 1).len = MemorySize

(* C19: IN given a cancelled prompt, a text that is no number or an        *)
(* integer outside -999..999 makes the machine Errored and leaves AC, Z    *)
(* and N as they were; given an integer within -999..999 it puts it in AC  *)
(* and sets Z and N from it.                                               *)
C19_Input ==
  [][(last'.stepped /\ decode(cpu'.IR).opcode = 901) =>
       IF last'.input # Cancelled /\ InRange(last'.input)
       THEN /\ cpu'.AC = last'.input
            /\ cpu'.Z = (cpu'.AC = 0)
            /\ cpu'.N = (cpu'.AC < 0)
            /\ ~state'.error
       ELSE /\ state'.error
            /\ cpu'.AC = cpu.AC /\ cpu'.Z = cpu.Z /\ cpu'.N = cpu.N]_vars

(* IN was given 1000 after an earlier IN had put -600 in AC. *)
C19_Witness ==
  /\ last.stepped /\ LastOpcode = 901 /\ last.input = 1000
  /\ state.error /\ cpu.AC = -600 /\ cpu.N

(* C20: BRZ sets PC to its operand exactly when AC = 0 and BRP exactly     *)
(* when AC >= 0, else PC is the fetched PC + 1; neither changes AC, the    *)
(* flags or memory (which, when singleStep() first loaded the program, is  *)
(* memory as the load left it).                                            *)
C20_ConditionalBranch ==
  [][(last'.stepped /\ decode(cpu'.IR).opcode \in {7, 8}) =>
       LET taken == IF decode(cpu'.IR).opcode = 7 THEN cpu.AC = 0
                    ELSE JsGe(cpu.AC, 0)
       IN  /\ cpu'.PC = IF taken THEN decode(cpu'.IR).operand
                        ELSE cpu.PC + 1
           /\ cpu'.AC = cpu.AC /\ cpu'.Z = cpu.Z /\ cpu'.N = cpu.N
           /\ memory' = IF Len(state.program) > 0 THEN memory
                        ELSE LoadImage(memory, state'.program, 1)]_vars

(* BRP was executed with a negative AC and fell through. *)
C20_Witness ==
  /\ last.stepped /\ LastOpcode = 8 /\ cpu.AC < 0
  /\ cpu.PC # decode(cpu.IR).operand

(* Memory as the cycle of a step found it: memory itself, or, when         *)
(* singleStep() first loaded the program, memory as the load left it.      *)
MemoryBefore ==
  IF Len(state.program) > 0 THEN memory
  ELSE LoadImage(memory, state'.program, 1)

(* C21: STORE writes AC to memory[operand], leaves MAR = operand and       *)
(* MBR = AC, and changes no other memory word, nor AC, Z or N.             *)
C21_Store ==
  [][(last'.stepped /\ decode(cpu'.IR).opcode = 3) =>
       LET a == decode(cpu'.IR).operand
       IN  /\ MemRead(memory', a) = cpu.AC
           /\ cpu'.MAR = a /\ cpu'.MBR = cpu.AC
           /\ memory'.len = MemoryBefore.len
           /\ \A b \in (0..(memory'.len - 1)) \ {a} :
                MemRead(memory', b) = MemRead(MemoryBefore, b)
           /\ cpu'.AC = cpu.AC /\ cpu'.Z = cpu.Z /\ cpu'.N = cpu.N]_vars

(* STORE has written an AC other than 0. *)
C21_Witness ==
  /\ last.stepped /\ LastOpcode = 3 /\ cpu.AC # 0
  /\ MemRead(memory, cpu.MAR) = cpu.AC

(* C22: the text "LDA 10 / HLT / *10 / DAT 005", once loaded, has put 510  *)
(* at address 0, 0 at address 1 and 5 at address 10; its first cycle puts  *)
(* 5 in AC, and its second is the HLT, which leaves it Halted with AC = 5  *)
(* and not Errored.                                                        *)
C22_LoadHalt ==
  (code = "loadHalt" /\ Len(state.program) > 0) =>
    /\ MemRead(memory, 0) = 510
    /\ MemRead(memory, 1) = 0
    /\ MemRead(memory, 10) = 5
    /\ last.stepped =>
         /\ ~state.error
         /\ cpu.AC = 5
         /\ state.cycle \in {1, 2}
         /\ state.halted <=> state.cycle = 2
         /\ state.halted => cpu.IR = 0

(* The text has run to its HLT. *)
C22_Witness ==
  /\ code = "loadHalt" /\ state.halted /\ last.stepped /\ state.cycle = 2
  /\ cpu.AC = 5

(* C23: LOAD puts memory[operand] in AC; ADD of a word that keeps the sum  *)
(* within -999..999 puts AC + memory[operand] in AC; both set Z and N from *)
(* the new AC. The text "LDA 3 / ADD 4 / HLT / DAT 3 / DAT 2" has AC = 5,  *)
(* Z and N false after its second cycle.                                   *)
C23_LoadAdd ==
  /\ [][(last'.stepped /\ decode(cpu'.IR).opcode = 5) =>
          /\ cpu'.AC = MemRead(MemoryBefore, decode(cpu'.IR).operand)
          /\ cpu'.Z = (cpu'.AC = 0)
          /\ cpu'.N = JsLt(cpu'.AC, 0)]_vars
  /\ [][(last'.stepped /\ decode(cpu'.IR).opcode = 1
           /\ IsNumber(cpu.AC)
           /\ IsNumber(MemRead(MemoryBefore, decode(cpu'.IR).operand))
           /\ InRange(cpu.AC
                        + MemRead(MemoryBefore, decode(cpu'.IR).operand))) =>
          /\ cpu'.AC = cpu.AC + MemRead(MemoryBefore, decode(cpu'.IR).operand)
          /\ cpu'.Z = (cpu'.AC = 0)
          /\ cpu'.N = (cpu'.AC < 0)
          /\ ~state'.error]_vars
  /\ []((code = "loadAdd" /\ last.stepped /\ state.cycle = 2) =>
          (cpu.AC = 5 /\ ~cpu.Z /\ ~cpu.N))

(* The ADD of the text has run. *)
C23_Witness ==
  /\ code = "loadAdd" /\ last.stepped /\ state.cycle = 2
  /\ LastOpcode = 1 /\ cpu.AC = 5

(* C24: a line *nn with nn within 0..99 sets the load address to nn and    *)
(* emits no entry; with nn outside 0..99 or no number it emits no entry,   *)
(* reports no error and leaves the load address as it was.                 *)
C24_AddressReset ==
  [][(asmK' = asmK + 1 /\ asmLines[asmK].kind = "star") =>
       /\ asmA'.program = asmA.program
       /\ asmA'.errors = asmA.errors
       /\ asmA'.address =
            IF IsNumber(asmLines[asmK].arg) /\ asmLines[asmK].arg \in 0..99
            THEN asmLines[asmK].arg
            ELSE asmA.address]_vars

(* After a data line a *100 was passed over and a *0 obeyed. *)
C24_Witness ==
  /\ asmK = 4 /\ asmLines = <<Dat(7), Star(100), Star(0)>>
  /\ asmA.address = 0 /\ Len(asmA.program) = 1

(* C25: right after a load, an address with several program entries holds  *)
(* the word of the entry that is last in the program table.                *)
C25_LastWriteWins ==
  RunLoaded =>
    \A a \in 0..(memory.len - 1) :
      EntriesAt(state.program, a) # {} =>
        MemRead(memory, a) = ImageWord(state.program, a)

(* A text with the entries 7 and then 0 at address 0 was loaded. *)
C25_Witness ==
  /\ RunLoaded /\ code = "overwrite"
  /\ Cardinality(EntriesAt(state.program, 0)) = 2
  /\ state.program[1].bytecode = 7
  /\ MemRead(memory, 0) = 0

(* C26: a line that begins with DAT, and a line that is a bare signed      *)
(* integer, emits exactly one entry, holding its number at the load        *)
(* address, and advances the load address by one.                          *)
C26_DataLine ==
  [][(asmK' = asmK + 1 /\ asmLines[asmK].kind \in {"dat", "num"}) =>
       /\ Len(asmA'.program) = Len(asmA.program) + 1
       /\ SubSeq(asmA'.program, 1, Len(asmA.program)) = asmA.program
       /\ asmA'.program[Len(asmA'.program)].address = asmA.address
       /\ asmA'.program[Len(asmA'.program)].bytecode = asmLines[asmK].arg
       /\ asmA'.address = asmA.address + 1
       /\ asmA'.errors = asmA.errors]_vars

(* C27: the events of a cycle start with those of its fetch, in the order  *)
(* MAR, MBR, IR, PC (a memory-read between MBR and IR), each with the      *)
(* value just assigned; the events of its execute come after them.         *)
C27_FetchEventsFirst ==
  [][last'.stepped =>
       /\ Len(events') >= 5
       /\ SubSeq(events', 1, 5) =
            <<RegisterChange("MAR", cpu.PC),
              RegisterChange("MBR", MemRead(MemoryBefore, cpu.PC)),
              MemoryRead(cpu.PC),
              RegisterChange("IR", MemRead(MemoryBefore, cpu.PC)),
              RegisterChange("PC", cpu.PC + 1)>>
       /\ cpu'.IR = MemRead(MemoryBefore, cpu.PC)]_vars

(* A cycle whose execute emitted events: an ADD within range. *)
C27_Witness ==
  /\ last.stepped /\ LastOpcode = 1 /\ ~state.error
  /\ Len(events) = 10
  /\ events[9] = RegisterChange("AC", cpu.AC)

(* C28: at the end of a cycle the value last announced for each register   *)
(* by a register-change event is the value of the register.                *)
C28_AnnouncedIsActual ==
  last.stepped => \A r \in Registers : announced[r] = cpu[r]

(* C29, for the memory image: a text loaded again, with only reset() and   *)
(* cycles of its own since its last load, gets the memory image that load  *)
(* gave.                                                                   *)
C29_SameImage ==
  [][(last'.op = "singleStep" /\ Len(state.program) = 0 /\ LoadOk(code)
        /\ image.code = code)
       => image'.memory = image.memory]_vars

(* C30: step() on a Halted or Errored machine returns "stop" and changes   *)
(* nothing; a step() that executes a cycle returns "continue" exactly when *)
(* the machine is then neither Halted nor Errored, which is when the       *)
(* pacing loop that called it goes on.                                     *)
C30_StepResult ==
  /\ []((state.halted \/ state.error) =>
          \A input \in Inputs :
            /\ ~stepResult(Machine, input)
            /\ step(Machine, input) = Machine)
  /\ [][last'.stepped =>
          (stepResult(IF last'.op = "singleStep"
                      THEN EnsureLoaded(Machine, code) ELSE Machine,
                      last'.input)
             <=> (~state'.halted /\ ~state'.error))]_vars
  /\ [][(last'.op = "animate" /\ last'.stepped) =>
          (state'.running <=> (~state'.halted /\ ~state'.error))]_vars

(* A cycle of a run ended Errored and the pacing loop stopped. *)
C30_Witness ==
  /\ last.op = "animate" /\ last.stepped
  /\ state.error /\ ~state.halted /\ ~state.running

(* C31: at most one of the controller's running, halted and error         *)
(* conditions holds in any state.                                          *)
C31_OneRunState ==
  Cardinality({c \in {"running", "halted", "error"} : state[c]}) <= 1

(* C32: the cycle counter is 0 after reset(), one more after each executed *)
(* cycle (the cycle that halts or raises an error included) and unchanged  *)
(* by any other operation: it never decreases but by a reset and is the    *)
(* number of cycles executed since the last reset. A step on a Halted or   *)
(* Errored machine, pause() and a change of the rate leave it unchanged.   *)
C32_CycleCounter ==
  /\ [][IF last'.op \in ResetOps THEN state'.cycle = 0
        ELSE IF last'.stepped THEN state'.cycle = state.cycle + 1
        ELSE state'.cycle = state.cycle]_vars
  /\ [][(last'.op \in StepOps /\ (state.halted \/ state.error))
          => (state'.cycle = state.cycle /\ ~last'.stepped)]_vars
  /\ [][last'.op \in {"pause", "speed", "run", "edit"}
          => state'.cycle = state.cycle]_vars

(* A step was asked of a machine that a counted cycle had halted. *)
C32_Witness ==
  /\ last.op \in StepOps /\ ~last.stepped /\ last.pre.halted
  /\ state.cycle >= 2 /\ cpu.IR = 0

(* C33: a step changes memory only when its cycle executes a STORE, and    *)
(* then only the word at the STORE's operand address; a cycle of any other *)
(* instruction, its fetch included, and a step that executes no cycle      *)
(* leave every memory word as it was (as the load left it, when the step   *)
(* first loaded the program).                                              *)
C33_OnlyStoreWrites ==
  [][last'.op \in StepOps =>
       IF last'.stepped /\ decode(cpu'.IR).opcode = 3
       THEN /\ memory'.len = MemoryBefore.len
            /\ \A b \in (0..(memory'.len - 1)) \ {decode(cpu'.IR).operand} :
                 MemRead(memory', b) = MemRead(MemoryBefore, b)
       ELSE memory' = MemoryBefore]_vars

(* A LOAD was executed after a STORE had written 1 to address 21. *)
C33_Witness ==
  /\ code = "fibonacci" /\ last.stepped /\ LastOpcode = 5
  /\ MemRead(memory, 21) = 1 /\ state.cycle >= 5

(* The source line of the entry whose word a load leaves at address a: the *)
(* last entry of the program table at a                                    *)
LineAt(program, a) ==
  program[CHOOSE k \in EntriesAt(program, a) :
            \A j \in EntriesAt(program, a) : j <= k].line

(* C34: after an executed cycle the current line is the source line of the *)
(* instruction just executed: of the entry whose word is in memory at the  *)
(* address the instruction was fetched from.                               *)
C34_CurrentLine ==
  [][(last'.stepped /\ EntriesAt(state'.program, cpu.PC) # {})
       => state'.currentLine = LineAt(state'.program, cpu.PC)]_vars

(* C35: reset() ends a run in progress: after it the run state is Ready    *)
(* and no frame callback is scheduled; while the controller is not         *)
(* running no frame callback executes a cycle or changes the machine, and  *)
(* only run() makes it running again.                                      *)
C35_ResetStopsPacing ==
  /\ [](last.op \in ResetOps =>
          /\ ~state.running /\ ~state.halted /\ ~state.error
          /\ state.cycle = 0 /\ cpu = InitCpu
          /\ pending = {} /\ animationId = 0)
  /\ [][(~state.running /\ last'.op = "animate") =>
          /\ ~last'.stepped
          /\ cpu' = cpu /\ memory' = memory /\ state' = state]_vars
  /\ [][(~state.running /\ state'.running) => last'.op = "run"]_vars
  /\ [][(~state.running /\ last'.stepped) => last'.op = "singleStep"]_vars

(* reset() was called in a run that had executed cycles and had its next   *)
(* frame callback scheduled.                                               *)
C35_Witness ==
  /\ last.op = "reset" /\ last.pre.running /\ last.pre.loaded
  /\ ~last.pre.halted /\ ~last.pre.error
  /\ lastStepTime = 1 /\ pending = {}

(* C36: every entry the assembler emits carries an integer word, and the   *)
(* word of a line with a known mnemonic, whatever its second token (none,  *)
(* an unsigned decimal number, or a text that is no number), decodes to    *)
(* the mnemonic's opcode.                                                  *)
C36_IntegerWords ==
  \A i \in DOMAIN asmA.program :
    LET e == asmA.program[i]
        l == asmLines[e.line + 1]
    IN  /\ IsNumber(e.bytecode)
        /\ (l.kind = "ins" /\ (IsNumber(e.operand) => e.operand >= 0))
             => decode(e.bytecode).opcode = OPCODES[e.instruction]

(* C37: in every state that is not Errored, Z implies AC = 0 and N holds   *)
(* exactly when AC < 0; so the test "Z or AC = 0" of BRZ is the test       *)
(* AC = 0, and an executed BRZ sets PC to its operand exactly when AC = 0. *)
C37_FlagsFollowAccumulator ==
  /\ [](~state.error =>
          /\ cpu.Z => cpu.AC = 0
          /\ cpu.N <=> JsLt(cpu.AC, 0)
          /\ (cpu.Z \/ cpu.AC = 0) <=> cpu.AC = 0)
  /\ [][(last'.stepped /\ decode(cpu'.IR).opcode = 7) =>
          /\ ~state.error
          /\ cpu'.PC = IF cpu.AC = 0 THEN decode(cpu'.IR).operand
                       ELSE cpu.PC + 1]_vars

(* BRZ fell through after a SUB had left a negative AC. *)
C37_Witness ==
  /\ last.stepped /\ LastOpcode = 7 /\ ~state.error
  /\ cpu.N /\ cpu.AC < 0 /\ cpu.PC # decode(cpu.IR).operand

(* The machine but for its running mark: registers, flags, memory, cycle   *)
(* counter, program table and the rest of state                            *)
Paused(m) == [m EXCEPT !.state.running = FALSE]

(* C38: pause() changes no register, flag, memory word, the cycle counter  *)
(* or the program table; the run() after it changes none of them either    *)
(* (it does not load the text again) and the controller is running again;  *)
(* and a cycle of a run depends only on the machine and the input it is    *)
(* given, so a paused and resumed run goes through the machine states of   *)
(* an uninterrupted one.                                                   *)
C38_PauseResume ==
  /\ [][last'.op = "pause" =>
          /\ cpu' = cpu /\ memory' = memory
          /\ state' = [state EXCEPT !.running = FALSE]]_vars
  /\ [][(last'.op = "run" /\ last'.resumed) =>
          /\ cpu' = cpu /\ memory' = memory
          /\ state' = [state EXCEPT !.running = TRUE]]_vars
  /\ [][(last'.op = "animate" /\ last'.stepped) =>
          Paused([cpu |-> cpu', memory |-> memory', state |-> state'])
            = Paused(step(Machine, last'.input))]_vars

====
